---- MODULE Spec2Model ----
(***************************************************************************)
(* Fulfillment codec of five-bells-condition (src/lib/fulfillment.js):     *)
(* the URI and binary parse entry points, the serializers and the          *)
(* condition derivation of the Fulfillment base class, together with the   *)
(* collaborators it calls (Reader, Writer, Predictor, BitmaskRegistry,     *)
(* base64url and three fulfillment variants).                              *)
(*                                                                         *)
(* Text is a sequence of one-character strings, a buffer a sequence of     *)
(* integers 0..255.                                                        *)
(***************************************************************************)
EXTENDS Integers, Sequences, FiniteSets, TLC

\* ------------------------------------------------------------------ bounds
MaxTextLen == 5        \* arbitrary strings over TextAlphabet, up to this length
MaxSegments == 5       \* ':'-separated segments of a sampled URI
MaxTailLen == 5        \* bytes following the type field of a sampled buffer
MaxPreimageLen == 3    \* bytes of a producer-side preimage
MaxSubs == 2           \* subfulfillments of a producer-side compound
MaxPredict == 3        \* Predictor replays followed on one fulfillment
LongLen == 128         \* length of the one long preimage (two-byte length prefix)

\* ------------------------------------------------------------------ state
VARIABLES
  registry,     \* BitmaskRegistry: type bit -> registered class
  input,        \* the value the caller is about to hand to an entry point
  held,         \* the fulfillment object the caller holds
  last,         \* the most recent call: its arguments and what it returned or threw
  conditions,   \* the Conditions getCondition has returned for held, in order
  nPredict      \* Predictor replays made on held so far

vars == <<registry, input, held, last, conditions, nPredict>>

\* ------------------------------------------------------------------ text
Digits == <<"0", "1", "2", "3", "4", "5", "6", "7", "8", "9">>
LowerHex == Digits \o <<"a", "b", "c", "d", "e", "f">>
UpperHexLetters == <<"A", "B", "C", "D", "E", "F">>

\* The URL-safe base64 alphabet, in value order.
B64 ==
  << "A", "B", "C", "D", "E", "F", "G", "H", "I", "J", "K", "L", "M",
     "N", "O", "P", "Q", "R", "S", "T", "U", "V", "W", "X", "Y", "Z",
     "a", "b", "c", "d", "e", "f", "g", "h", "i", "j", "k", "l", "m",
     "n", "o", "p", "q", "r", "s", "t", "u", "v", "w", "x", "y", "z",
     "0", "1", "2", "3", "4", "5", "6", "7", "8", "9", "-", "_" >>

Range(s) == {s[i] : i \in 1..Len(s)}

IndexOf(s, c) == CHOOSE i \in 1..Len(s) : s[i] = c

Tail_(s, n) == SubSeq(s, n + 1, Len(s))      \* s without its first n elements

StartsWith(s, p) == Len(s) >= Len(p) /\ SubSeq(s, 1, Len(p)) = p

RECURSIVE SeqsUpTo(_, _)
SeqsUpTo(S, n) ==
  IF n = 0 THEN {<<>>}
  ELSE LET shorter == SeqsUpTo(S, n - 1)
       IN shorter \cup {Append(s, x) : s \in {t \in shorter : Len(t) = n - 1}, x \in S}

RECURSIVE Repeat(_, _)
Repeat(x, n) == IF n = 0 THEN <<>> ELSE <<x>> \o Repeat(x, n - 1)

\* String.prototype.split(':'): the pieces between the separators.
RECURSIVE Split(_)
Split(s) ==
  IF \A i \in 1..Len(s) : s[i] # ":" THEN <<s>>
  ELSE LET k == CHOOSE i \in 1..Len(s) : s[i] = ":" /\ \A j \in 1..(i - 1) : s[j] # ":"
       IN <<SubSeq(s, 1, k - 1)>> \o Split(Tail_(s, k))

RECURSIVE Join(_)
Join(pieces) ==
  IF Len(pieces) = 0 THEN <<>>
  ELSE IF Len(pieces) = 1 THEN pieces[1]
  ELSE pieces[1] \o <<":">> \o Join(Tail(pieces))

\* pieces[i] of a JavaScript array: undefined past the end.
Undefined == <<"undefined">>
Piece(pieces, i) == IF i <= Len(pieces) THEN pieces[i] ELSE Undefined

\* Number.prototype.toString(16) of a non-negative integer.
RECURSIVE ToHex(_)
ToHex(n) == IF n < 16 THEN <<LowerHex[n + 1]>> ELSE ToHex(n \div 16) \o <<LowerHex[(n % 16) + 1]>>

\* parseInt(s, 16): the value of the longest prefix of hex digits, NaN when
\* there is none.
NaN == -1
HexValue(c) ==
  IF c \in Range(LowerHex) THEN IndexOf(LowerHex, c) - 1
  ELSE IF c \in Range(UpperHexLetters) THEN IndexOf(UpperHexLetters, c) + 9
  ELSE NaN
RECURSIVE ParseDigits(_, _, _)
ParseDigits(s, radix, acc) ==
  IF Len(s) = 0 \/ HexValue(s[1]) = NaN \/ HexValue(s[1]) >= radix THEN acc
  ELSE ParseDigits(Tail(s), radix, acc * radix + HexValue(s[1]))
ParseIntRadix(s, radix) ==
  IF Len(s) = 0 \/ HexValue(s[1]) = NaN \/ HexValue(s[1]) >= radix THEN NaN
  ELSE ParseDigits(s, radix, 0)

\* ------------------------------------------------------------------ FULFILLMENT_REGEX
HexLead == Range(LowerHex) \ {"0"}           \* [1-9a-f]
HexDigit == Range(LowerHex)                  \* [0-9a-f]
PayloadChar == Range(B64)                    \* [a-zA-Z0-9_-]

\* /^cf:1:[1-9a-f][0-9a-f]{0,2}:[a-zA-Z0-9_-]*$/
FULFILLMENT_REGEX_Star(s) ==
  /\ StartsWith(s, <<"c", "f", ":", "1", ":">>)
  /\ \E k \in 0..2 :
       /\ Len(s) >= 5 + 1 + k + 1
       /\ s[6] \in HexLead
       /\ \A i \in 7..(6 + k) : s[i] \in HexDigit
       /\ s[7 + k] = ":"
       /\ \A i \in (8 + k)..Len(s) : s[i] \in PayloadChar

\* /^cf:1:[1-9a-f][0-9a-f]{0,1}:[a-zA-Z0-9_-]+$/
FULFILLMENT_REGEX_TwoDigits(s) ==
  /\ StartsWith(s, <<"c", "f", ":", "1", ":">>)
  /\ \E k \in 0..1 :
       /\ Len(s) >= 5 + 1 + k + 1 + 1
       /\ s[6] \in HexLead
       /\ \A i \in 7..(6 + k) : s[i] \in HexDigit
       /\ s[7 + k] = ":"
       /\ \A i \in (8 + k)..Len(s) : s[i] \in PayloadChar

\* /^cf:1:[1-9a-f][0-9a-f]{0,2}:[a-zA-Z0-9_-]+$/
FULFILLMENT_REGEX(s) ==
  /\ StartsWith(s, <<"c", "f", ":", "1", ":">>)
  /\ \E k \in 0..2 :
       /\ Len(s) >= 5 + 1 + k + 1 + 1
       /\ s[6] \in HexLead
       /\ \A i \in 7..(6 + k) : s[i] \in HexDigit
       /\ s[7 + k] = ":"
       /\ \A i \in (8 + k)..Len(s) : s[i] \in PayloadChar

\* ------------------------------------------------------------------ base64url
B64Char(v) == B64[v + 1]
B64Val(c) == IndexOf(B64, c) - 1

\* base64url.encode: three bytes to four characters, no padding.
RECURSIVE Base64UrlEncode(_)
Base64UrlEncode(b) ==
  IF Len(b) = 0 THEN <<>>
  ELSE IF Len(b) = 1 THEN
    <<B64Char(b[1] \div 4), B64Char((b[1] % 4) * 16)>>
  ELSE IF Len(b) = 2 THEN
    <<B64Char(b[1] \div 4), B64Char((b[1] % 4) * 16 + b[2] \div 16),
      B64Char((b[2] % 16) * 4)>>
  ELSE
    <<B64Char(b[1] \div 4), B64Char((b[1] % 4) * 16 + b[2] \div 16),
      B64Char((b[2] % 16) * 4 + b[3] \div 64), B64Char(b[3] % 64)>>
    \o Base64UrlEncode(Tail_(b, 3))

\* base64url.decode: four characters to three bytes; the bits of a short last
\* group that do not fill a byte are dropped.
RECURSIVE Base64UrlDecode(_)
Base64UrlDecode(t) ==
  IF Len(t) <= 1 THEN <<>>
  ELSE LET v1 == B64Val(t[1])
           v2 == B64Val(t[2])
           b1 == v1 * 4 + v2 \div 16
       IN IF Len(t) = 2 THEN <<b1>>
          ELSE LET v3 == B64Val(t[3])
                   b2 == (v2 % 16) * 16 + v3 \div 4
               IN IF Len(t) = 3 THEN <<b1, b2>>
                  ELSE <<b1, b2, (v3 % 4) * 64 + B64Val(t[4])>>
                       \o Base64UrlDecode(Tail_(t, 4))

\* ------------------------------------------------------------------ Writer / Predictor
\* writeVarUInt: seven bits of magnitude per byte, most significant group
\* first, the high bit set on every byte but the last.
RECURSIVE VarUIntGroups(_)
VarUIntGroups(v) == IF v < 128 THEN <<v>> ELSE VarUIntGroups(v \div 128) \o <<v % 128>>

VarUInt(v) ==
  LET g == VarUIntGroups(v)
  IN [i \in 1..Len(g) |-> IF i < Len(g) THEN g[i] + 128 ELSE g[i]]

\* The write operations a writePayload issues, in order.
OpVarUInt(v) == [op |-> "writeVarUInt", value |-> v, bytes |-> <<>>]
OpVarOctetString(b) == [op |-> "writeVarOctetString", value |-> 0, bytes |-> b]

\* Writer: the bytes one operation appends.
WriterWrite(o) ==
  IF o.op = "writeVarUInt" THEN VarUInt(o.value)
  ELSE VarUInt(Len(o.bytes)) \o o.bytes

RECURSIVE WriterBuffer(_)
WriterBuffer(ops) ==
  IF Len(ops) = 0 THEN <<>> ELSE WriterWrite(ops[1]) \o WriterBuffer(Tail(ops))

\* Predictor: the number of bytes one operation would append.
PredictVarUInt(v) ==
  IF v < 128 THEN 1 ELSE IF v < 16384 THEN 2 ELSE IF v < 2097152 THEN 3 ELSE 4

PredictorWrite(o) ==
  IF o.op = "writeVarUInt" THEN PredictVarUInt(o.value)
  ELSE PredictVarUInt(Len(o.bytes)) + Len(o.bytes)

RECURSIVE PredictorSize(_)
PredictorSize(ops) ==
  IF Len(ops) = 0 THEN 0 ELSE PredictorWrite(ops[1]) + PredictorSize(Tail(ops))

\* ------------------------------------------------------------------ Reader
\* A read returns the value and the bytes left, or fails with ParseError.
ReadFail == [ok |-> FALSE, value |-> 0, bytes |-> <<>>, rest |-> <<>>]

\* readVarUInt: fails when the buffer ends before the terminating byte and
\* when the encoding is longer than the value needs (a leading 0x80).
RECURSIVE ReadVarUIntFrom(_, _)
ReadVarUIntFrom(b, acc) ==
  IF Len(b) = 0 THEN ReadFail
  ELSE IF b[1] >= 128 THEN ReadVarUIntFrom(Tail(b), acc * 128 + (b[1] - 128))
  ELSE [ok |-> TRUE, value |-> acc * 128 + b[1], bytes |-> <<>>, rest |-> Tail(b)]

ReadVarUInt(b) ==
  IF Len(b) > 0 /\ b[1] = 128 THEN ReadFail ELSE ReadVarUIntFrom(b, 0)

\* readVarOctetString: a varuint length, then that many bytes.
ReadVarOctetString(b) ==
  LET n == ReadVarUInt(b)
  IN IF ~n.ok \/ Len(n.rest) < n.value THEN ReadFail
     ELSE [ok |-> TRUE, value |-> n.value, bytes |-> SubSeq(n.rest, 1, n.value),
           rest |-> Tail_(n.rest, n.value)]

\* ------------------------------------------------------------------ fulfillment variants
\* A fulfillment object: its class and its payload fields.
Fulfillment(type, preimage, subs) == [type |-> type, preimage |-> preimage, subs |-> subs]
NoFulfillment == Fulfillment("None", <<>>, <<>>)

\* The static TYPE_BIT of each registered class.
TYPE_BIT(type) ==
  CASE type = "Preimage" -> 1
    [] type = "And" -> 4
    [] type = "Nil" -> 256

Variants == {"Preimage", "And", "Nil"}

\* a | b on non-negative integers
RECURSIVE BitOr(_, _)
BitOr(a, b) ==
  IF a = 0 THEN b
  ELSE IF b = 0 THEN a
  ELSE (IF a % 2 = 1 \/ b % 2 = 1 THEN 1 ELSE 0) + 2 * BitOr(a \div 2, b \div 2)

Sha256(data) == [alg |-> "sha256", data |-> data]

RECURSIVE getBitmask(_)
RECURSIVE calculateMaxFulfillmentLength(_)
RECURSIVE generateHash(_)
RECURSIVE writePayload(_)
RECURSIVE serializeBinary(_)

getTypeBit(f) == TYPE_BIT(f.type)

\* getBitmask of the compound: the OR of its constituents' bitmasks.
RECURSIVE OrBitmasks(_)
OrBitmasks(subs) ==
  IF Len(subs) = 0 THEN 0 ELSE BitOr(getBitmask(subs[1]), OrBitmasks(Tail(subs)))

getBitmask(f) == IF f.type = "And" THEN OrBitmasks(f.subs) ELSE TYPE_BIT(f.type)

\* writePayload of each class, as the write operations it issues.
RECURSIVE WriteSubs(_)
WriteSubs(subs) ==
  IF Len(subs) = 0 THEN <<>>
  ELSE <<OpVarOctetString(serializeBinary(subs[1]))>> \o WriteSubs(Tail(subs))

writePayload(f) ==
  CASE f.type = "Preimage" -> <<OpVarOctetString(f.preimage)>>
    [] f.type = "And" -> <<OpVarUInt(Len(f.subs))>> \o WriteSubs(f.subs)
    [] f.type = "Nil" -> <<>>

serializeBinary_Bitmask(f) == VarUInt(getBitmask(f)) \o WriterBuffer(writePayload(f))

serializeBinary(f) == VarUInt(getTypeBit(f)) \o WriterBuffer(writePayload(f))

serializePayload(f) == WriterBuffer(writePayload(f))

serializeUri_Bitmask(f) ==
  <<"c", "f", ":", "1", ":">> \o ToHex(getBitmask(f)) \o <<":">>
    \o Base64UrlEncode(serializePayload(f))

serializeUri(f) ==
  <<"c", "f", ":", "1", ":">> \o ToHex(getTypeBit(f)) \o <<":">>
    \o Base64UrlEncode(serializePayload(f))

\* calculateMaxFulfillmentLength of the compound: the framing plus each
\* constituent's type field and maximum payload length.
RECURSIVE SumSubsMax(_)
SumSubsMax(subs) ==
  IF Len(subs) = 0 THEN 0
  ELSE LET m == PredictVarUInt(getTypeBit(subs[1])) + calculateMaxFulfillmentLength(subs[1])
       IN PredictVarUInt(m) + m + SumSubsMax(Tail(subs))

\* A calculateMaxFulfillmentLength that reads the predictor before the replay.
calculateMaxFulfillmentLength_Unwritten(f) == PredictorSize(<<>>)

calculateMaxFulfillmentLength(f) ==
  IF f.type = "And" THEN PredictVarUInt(Len(f.subs)) + SumSubsMax(f.subs)
  ELSE PredictorSize(writePayload(f))

\* Condition: the value getCondition builds, and its binary form.
Condition(bitmask, hash, maxFulfillmentLength) ==
  [bitmask |-> bitmask, hash |-> hash, maxFulfillmentLength |-> maxFulfillmentLength]
NoCondition == Condition(0, Sha256(<<>>), 0)

\* A getCondition whose predictor is shared between calls and never reset.
getCondition_SharedPredictor(f) ==
  Condition(getBitmask(f), generateHash(f), (nPredict + 1) * calculateMaxFulfillmentLength(f))

getCondition(f) ==
  Condition(getBitmask(f), generateHash(f), calculateMaxFulfillmentLength(f))

ConditionBinary(c) == VarUInt(c.bitmask) \o c.hash.data \o VarUInt(c.maxFulfillmentLength)

RECURSIVE SubConditions(_)
SubConditions(subs) ==
  IF Len(subs) = 0 THEN <<>>
  ELSE ConditionBinary(getCondition(subs[1])) \o SubConditions(Tail(subs))

\* generateHash of each class; the base class's own throws.
NotImplemented == [alg |-> "throw", data |-> <<>>]
generateHash(f) ==
  CASE f.type = "Preimage" -> Sha256(f.preimage)
    [] f.type = "And" -> Sha256(SubConditions(f.subs))
    [] f.type = "Nil" -> Sha256(<<>>)
    [] OTHER -> NotImplemented

\* ------------------------------------------------------------------ BitmaskRegistry
getClassFromTypeBit(bitmask) ==
  IF bitmask \in DOMAIN registry THEN [ok |-> TRUE, class |-> registry[bitmask]]
  ELSE [ok |-> FALSE, class |-> "None"]

\* ------------------------------------------------------------------ parsing
\* The outcome of a parse entry point: what it returned or threw, and the
\* calls it made on the way.
Outcome(kind, message, obj, events) ==
  [kind |-> kind, message |-> message, obj |-> obj, events |-> events]
Return(obj, events) == Outcome("ok", "", obj, events)
Throw(kind, message, events) == Outcome(kind, message, NoFulfillment, events)

ParseFail == [ok |-> FALSE, obj |-> NoFulfillment, rest |-> <<>>]

RECURSIVE parsePayload(_, _)
RECURSIVE fromBinaryReader(_)

\* The compound reads each constituent as a length-prefixed binary
\* fulfillment.
RECURSIVE ParseSubs(_, _, _)
ParseSubs(b, n, acc) ==
  IF n = 0 THEN [ok |-> TRUE, subs |-> acc, rest |-> b]
  ELSE LET r == ReadVarOctetString(b)
       IN IF ~r.ok THEN [ok |-> FALSE, subs |-> <<>>, rest |-> <<>>]
          ELSE LET sub == fromBinaryReader(r.bytes)
               IN IF sub.kind # "ok" THEN [ok |-> FALSE, subs |-> <<>>, rest |-> <<>>]
                  ELSE ParseSubs(r.rest, n - 1, Append(acc, sub.obj))

\* parsePayload of each class, reading from the bytes the reader has left.
parsePayload(class, b) ==
  CASE class = "Preimage" ->
         LET r == ReadVarOctetString(b)
         IN IF r.ok THEN [ok |-> TRUE, obj |-> Fulfillment(class, r.bytes, <<>>), rest |-> r.rest]
            ELSE ParseFail
    [] class = "And" ->
         LET n == ReadVarUInt(b)
         IN IF ~n.ok THEN ParseFail
            ELSE LET r == ParseSubs(n.rest, n.value, <<>>)
                 IN IF r.ok THEN [ok |-> TRUE, obj |-> Fulfillment(class, <<>>, r.subs), rest |-> r.rest]
                    ELSE ParseFail
    [] class = "Nil" -> [ok |-> TRUE, obj |-> Fulfillment(class, <<>>, <<>>), rest |-> b]

\* Fulfillment.fromBinary on a reader positioned at the bytes b.
fromBinaryReader(b) ==
  LET typeBit == ReadVarUInt(b)
  IN IF ~typeBit.ok THEN
       Throw("ParseError", "reader", <<"Reader.from", "readVarUInt">>)
     ELSE LET ConditionClass == getClassFromTypeBit(typeBit.value)
          IN IF ~ConditionClass.ok THEN
               Throw("ParseError", "registry",
                     <<"Reader.from", "readVarUInt", "getClassFromTypeBit">>)
             ELSE LET condition == parsePayload(ConditionClass.class, typeBit.rest)
                      events == <<"Reader.from", "readVarUInt", "getClassFromTypeBit",
                                  "new", "parsePayload">>
                  IN IF ~condition.ok THEN Throw("ParseError", "reader", events)
                     ELSE Return(condition.obj, events)

\* A fromBinary that hands back the object it was filling when parsePayload
\* threw.
fromBinary_Partial(reader) ==
  LET r == fromBinaryReader(reader)
  IN IF r.kind = "ParseError" /\ "parsePayload" \in Range(r.events)
     THEN Return(Fulfillment(getClassFromTypeBit(ReadVarUInt(reader).value).class, <<>>, <<>>),
                 r.events)
     ELSE r

fromBinary(reader) == fromBinaryReader(reader)

\* Fulfillment.fromUri; NotAString stands for an argument that is no string.
NotAString == <<"[object Object]">>

\* The two prefix checks on the pieces of the split string.
PrefixCheck_SchemeOnly(pieces) ==
  IF Piece(pieces, 1) # <<"c", "f">> THEN "Serialized fulfillment must start with \"cf:\""
  ELSE "passed"

PrefixCheck(pieces) ==
  IF Piece(pieces, 1) # <<"c", "f">> THEN "Serialized fulfillment must start with \"cf:\""
  ELSE IF Piece(pieces, 2) # <<"1">> THEN "Fulfillment must be version 1"
  ELSE "passed"

\* The radix parseInt reads the type bit in.
ParseRadix_Decimal == Len(Digits)
ParseRadix == 16

fromUri(serializedFulfillment) ==
  LET pieces == Split(serializedFulfillment)
  IN IF serializedFulfillment = NotAString THEN
       Throw("Error", "Serialized fulfillment must be a string", <<>>)
     ELSE IF PrefixCheck(pieces) # "passed" THEN
       Throw("PrefixError", PrefixCheck(pieces), <<"split">>)
     ELSE IF ~FULFILLMENT_REGEX(serializedFulfillment) THEN
       Throw("ParseError", "Invalid fulfillment format", <<"split", "FULFILLMENT_REGEX">>)
     ELSE
       LET bitmask == ParseIntRadix(pieces[3], ParseRadix)
           payload == Base64UrlDecode(pieces[4])
           ConditionClass == getClassFromTypeBit(bitmask)
           decoded == <<"split", "FULFILLMENT_REGEX", "parseInt", "base64url.decode",
                        "Reader.from", "getClassFromTypeBit">>
       IN IF ~ConditionClass.ok THEN Throw("ParseError", "registry", decoded)
          ELSE LET fulfillment == parsePayload(ConditionClass.class, payload)
               IN IF ~fulfillment.ok THEN
                    Throw("ParseError", "reader", decoded \o <<"new", "parsePayload">>)
                  ELSE Return(fulfillment.obj, decoded \o <<"new", "parsePayload">>)

\* ------------------------------------------------------------------ inputs
\* Arbitrary short strings.
TextAlphabet == {"c", "f", ":", "1", "x"}
ShortTexts == SeqsUpTo(TextAlphabet, MaxTextLen)

\* URIs assembled from sampled segments: scheme, version, type bit, payload,
\* and further segments.
SegmentSamples(i) ==
  CASE i = 1 -> {<<"c", "f">>, <<"x", "x">>, <<"c">>, <<>>}
    [] i = 2 -> {<<"1">>, <<"2">>, <<"1", "1">>, <<>>}
    [] i = 3 -> {<<"1">>, <<"4">>, <<"1", "0", "0">>, <<"2">>, <<"1", "0">>, <<"4", "e">>,
                 <<"0">>, <<"0", "1">>, <<"1", "0", "0", "0">>, <<"A">>, <<>>}
    [] i = 4 -> {<<"A", "A">>, <<"A", "Q">>, <<"A", "Q", "A">>,
                 <<"A", "Q", "I", "B", "A", "A">>, <<"_", "w">>, <<"A">>,
                 <<"A", "Q", "=", "=">>, <<"A", "+">>, <<>>}
    [] OTHER -> {<<"A", "A">>, <<>>}

RECURSIVE SegmentSeqs(_)
SegmentSeqs(n) ==
  IF n = 0 THEN {<<>>}
  ELSE {Append(p, x) : p \in SegmentSeqs(n - 1), x \in SegmentSamples(n)}

SampledUris == {Join(p) : p \in UNION {SegmentSeqs(n) : n \in 1..MaxSegments}}

UriInputs == ShortTexts \cup SampledUris \cup {NotAString}

\* Buffers: a type field (registered, unregistered, over-long, cut short or
\* missing) followed by arbitrary short tails.
TypeFields == {<<1>>, <<4>>, <<130, 0>>, <<2>>, <<0>>, <<129, 0>>, <<128, 1>>, <<130>>, <<>>}
TailBytes == {0, 1, 2}
BinaryInputs == {t \o b : t \in TypeFields, b \in SeqsUpTo(TailBytes, MaxTailLen)}

\* Producer-side fulfillments.
PreimageBytes == {0, 255}
Preimages == SeqsUpTo(PreimageBytes, MaxPreimageLen) \cup {Repeat(7, LongLen)}
SimpleFulfillments ==
  {Fulfillment("Preimage", p, <<>>) : p \in Preimages} \cup {Fulfillment("Nil", <<>>, <<>>)}
SubSamples ==
  { Fulfillment("Preimage", <<>>, <<>>), Fulfillment("Preimage", <<255>>, <<>>),
    Fulfillment("Nil", <<>>, <<>>),
    Fulfillment("And", <<>>, <<Fulfillment("Preimage", <<0>>, <<>>)>>) }
CompoundFulfillments ==
  {Fulfillment("And", <<>>, subs) : subs \in SeqsUpTo(SubSamples, MaxSubs) \ {<<>>}}
ObjectInputs == SimpleFulfillments \cup CompoundFulfillments

\* One type bit and one payload, handed to both entry points.
TypeBitSamples == {1, 4, 10, 16, 78, 128, 256, 4095}
PairPayloads == SeqsUpTo(TailBytes, MaxTailLen) \ {<<>>}
UriOf(t, p) == <<"c", "f", ":", "1", ":">> \o ToHex(t) \o <<":">> \o Base64UrlEncode(p)
BinaryOf(t, p) == VarUInt(t) \o p

Input(kind, text, bytes, obj, typeBit) ==
  [kind |-> kind, text |-> text, bytes |-> bytes, obj |-> obj, typeBit |-> typeBit]
NoInput == Input("none", <<>>, <<>>, NoFulfillment, 0)
Inputs ==
  {Input("uri", s, <<>>, NoFulfillment, 0) : s \in UriInputs}
    \cup {Input("binary", <<>>, b, NoFulfillment, 0) : b \in BinaryInputs}
    \cup {Input("object", <<>>, <<>>, o, 0) : o \in ObjectInputs}
    \cup {Input("pair", <<>>, p, NoFulfillment, t) : p \in PairPayloads, t \in TypeBitSamples}

\* The classes every concrete variant registers at module load.
RECURSIVE Registered(_, _)
Registered(reg, o) ==
  /\ TYPE_BIT(o.type) \in DOMAIN reg
  /\ \A i \in 1..Len(o.subs) : Registered(reg, o.subs[i])

RegistryOf(classes) ==
  [b \in {TYPE_BIT(c) : c \in classes} |-> CHOOSE c \in classes : TYPE_BIT(c) = b]
Registries == {RegistryOf(Variants), RegistryOf(Variants \ {"And"})}

\* ------------------------------------------------------------------ calls
Call(op, arg, text, bytes, num, outcome) ==
  [op |-> op, arg |-> arg, text |-> text, bytes |-> bytes, num |-> num,
   kind |-> outcome.kind, message |-> outcome.message, obj |-> outcome.obj,
   events |-> outcome.events,
   peerKind |-> "none", peerObj |-> NoFulfillment]
Returned == Return(NoFulfillment, <<>>)
NoCall == Call("none", "none", <<>>, <<>>, 0, Returned)

Init ==
  /\ registry \in Registries
  /\ input \in {i \in Inputs : i.kind = "object" => Registered(registry, i.obj)}
  /\ held = NoFulfillment
  /\ last = NoCall
  /\ conditions = <<>>
  /\ nPredict = 0

\* The producer constructs a fulfillment and sets its payload.
Construct ==
  /\ input.kind = "object"
  /\ held' = input.obj
  /\ last' = Call("new", "input", <<>>, <<>>, 0, Return(input.obj, <<>>))
  /\ input' = NoInput
  /\ UNCHANGED <<registry, conditions, nPredict>>

\* Fulfillment.fromUri(input)
FromUriInput ==
  /\ input.kind = "uri"
  /\ LET r == fromUri(input.text)
     IN /\ last' = Call("fromUri", "input", input.text, <<>>, 0, r)
        /\ held' = r.obj
  /\ input' = NoInput
  /\ UNCHANGED <<registry, conditions, nPredict>>

\* Fulfillment.fromBinary(input)
FromBinaryInput ==
  /\ input.kind = "binary"
  /\ LET r == fromBinary(input.bytes)
     IN /\ last' = Call("fromBinary", "input", <<>>, input.bytes, 0, r)
        /\ held' = r.obj
  /\ input' = NoInput
  /\ UNCHANGED <<registry, conditions, nPredict>>

\* Fulfillment.fromUri on the URI form of a type bit and a payload ...
FromUriPair ==
  /\ input.kind = "pair"
  /\ last.op = "none"
  /\ LET s == UriOf(input.typeBit, input.bytes)
     IN last' = Call("fromUri", "pair", s, <<>>, 0, fromUri(s))
  /\ UNCHANGED <<registry, input, held, conditions, nPredict>>

\* ... and Fulfillment.fromBinary on the binary form of the same two.
FromBinaryPair ==
  /\ input.kind = "pair"
  /\ last.op = "fromUri"
  /\ LET b == BinaryOf(input.typeBit, input.bytes)
     IN last' = [Call("fromBinary", "pair", last.text, b, input.typeBit, fromBinary(b))
                   EXCEPT !.peerKind = last.kind, !.peerObj = last.obj]
  /\ input' = NoInput
  /\ UNCHANGED <<registry, held, conditions, nPredict>>

Holding == held # NoFulfillment /\ input.kind = "none"

\* held.serializeUri()
SerializeUri ==
  /\ Holding
  /\ last' = Call("serializeUri", "f", serializeUri(held), <<>>, 0, Returned)
  /\ UNCHANGED <<registry, input, held, conditions, nPredict>>

\* held.serializeBinary()
SerializeBinary ==
  /\ Holding
  /\ last' = Call("serializeBinary", "f", <<>>, serializeBinary(held), 0, Returned)
  /\ UNCHANGED <<registry, input, held, conditions, nPredict>>

\* held.serializePayload()
SerializePayload ==
  /\ Holding
  /\ last' = Call("serializePayload", "f", <<>>, serializePayload(held), 0, Returned)
  /\ UNCHANGED <<registry, input, held, conditions, nPredict>>

\* held.calculateMaxFulfillmentLength()
CalculateMaxFulfillmentLength ==
  /\ Holding
  /\ nPredict < MaxPredict
  /\ last' = Call("calculateMaxFulfillmentLength", "f", <<>>, <<>>,
                  calculateMaxFulfillmentLength(held), Returned)
  /\ nPredict' = nPredict + 1
  /\ UNCHANGED <<registry, input, held, conditions>>

\* held.getCondition()
GetCondition ==
  /\ Holding
  /\ nPredict < MaxPredict
  /\ last' = Call("getCondition", "f", <<>>, <<>>, 0, Returned)
  /\ conditions' = Append(conditions, getCondition(held))
  /\ nPredict' = nPredict + 1
  /\ UNCHANGED <<registry, input, held>>

\* Fulfillment.fromUri(held.serializeUri())
FromUriSerialized ==
  /\ Holding
  /\ last.op = "serializeUri"
  /\ last' = Call("fromUri", "serialized", last.text, <<>>, 0, fromUri(last.text))
  /\ UNCHANGED <<registry, input, held, conditions, nPredict>>

\* Fulfillment.fromBinary(held.serializeBinary())
FromBinarySerialized ==
  /\ Holding
  /\ last.op = "serializeBinary"
  /\ last' = Call("fromBinary", "serialized", <<>>, last.bytes, 0, fromBinary(last.bytes))
  /\ UNCHANGED <<registry, input, held, conditions, nPredict>>

\* Fulfillment.fromBinary on held.serializeBinary() cut short after its type field
FromBinaryTruncated ==
  /\ Holding
  /\ last.op = "serializeBinary"
  /\ \E k \in Len(VarUInt(getTypeBit(held)))..(Len(last.bytes) - 1) :
       LET b == SubSeq(last.bytes, 1, k)
       IN last' = Call("fromBinary", "truncated", <<>>, b, 0, fromBinary(b))
  /\ UNCHANGED <<registry, input, held, conditions, nPredict>>

Next ==
  \/ Construct
  \/ FromUriInput
  \/ FromBinaryInput
  \/ FromUriPair
  \/ FromBinaryPair
  \/ SerializeUri
  \/ SerializeBinary
  \/ SerializePayload
  \/ CalculateMaxFulfillmentLength
  \/ GetCondition
  \/ FromUriSerialized
  \/ FromBinarySerialized
  \/ FromBinaryTruncated

Spec == Init /\ [][Next]_vars

\* ------------------------------------------------------------------ properties
Prefix == <<"c", "f", ":", "1", ":">>

\* The URI grammar, stated on the pieces: cf, 1, one to three lowercase hex
\* digits the first of which is not 0, and a non-empty url-safe payload.
MatchesGrammar(s) ==
  LET pieces == Split(s)
  IN /\ Len(pieces) = 4
     /\ pieces[1] = <<"c", "f">>
     /\ pieces[2] = <<"1">>
     /\ Len(pieces[3]) \in 1..3
     /\ Range(pieces[3]) \subseteq Range(LowerHex)
     /\ pieces[3][1] # "0"
     /\ Len(pieces[4]) >= 1
     /\ Range(pieces[4]) \subseteq Range(B64)

IsPrefixOf(p, s) == Len(p) <= Len(s) /\ SubSeq(s, 1, Len(p)) = p

\* C1: parsing the binary form of a held fulfillment succeeds, and the object
\* returned serializes to the very same bytes.
BinaryRoundTrip ==
  (last.op = "fromBinary" /\ last.arg = "serialized") =>
    /\ last.kind = "ok"
    /\ serializeBinary(last.obj) = last.bytes

BinaryRoundTripWitness ==
  /\ last.op = "fromBinary"
  /\ last.arg = "serialized"
  /\ last.kind = "ok"
  /\ held.type = "And"
  /\ Len(held.subs) = 2
  /\ last.obj = held

\* C2: parsing the URI form of a held fulfillment succeeds, and the object
\* returned serializes to the very same URI, whatever the payload length.
UriRoundTrip ==
  (last.op = "fromUri" /\ last.arg = "serialized") =>
    /\ last.kind = "ok"
    /\ serializeUri(last.obj) = last.text

\* C3: the payload is never longer than the maxFulfillmentLength of any
\* condition derived from the fulfillment, and exactly as long for the
\* classes that keep the default calculateMaxFulfillmentLength.
MaxLengthSound ==
  (last.op = "serializePayload") =>
    \A i \in 1..Len(conditions) :
      /\ Len(last.bytes) <= conditions[i].maxFulfillmentLength
      /\ held.type # "And" => Len(last.bytes) = conditions[i].maxFulfillmentLength

MaxLengthSoundWitness ==
  /\ last.op = "serializePayload"
  /\ Len(conditions) >= 1
  /\ held.type = "Preimage"
  /\ Len(held.preimage) >= 128
  /\ conditions[1].maxFulfillmentLength = Len(held.preimage) + 2

PrefixRejectionAsStated ==
  (last.op = "fromUri" /\ last.text # NotAString /\ ~IsPrefixOf(Prefix, last.text)) =>
    last.kind = "PrefixError"

\* C5: every string that does not start with cf:1:, the string cf:1 apart, is
\* refused with PrefixError, a wrong scheme and a wrong version with a message
\* of their own and before the grammar is looked at; cf:1 is refused with
\* ParseError.
PrefixRejection ==
  (last.op = "fromUri" /\ last.text # NotAString /\ ~IsPrefixOf(Prefix, last.text)) =>
    IF last.text = <<"c", "f", ":", "1">>
    THEN last.kind = "ParseError"
    ELSE /\ last.kind = "PrefixError"
         /\ last.events = <<"split">>
         /\ last.message =
              IF IsPrefixOf(<<"c", "f", ":">>, last.text) \/ last.text = <<"c", "f">>
              THEN "Fulfillment must be version 1"
              ELSE "Serialized fulfillment must start with \"cf:\""

PrefixRejectionWitness ==
  /\ last.op = "fromUri"
  /\ last.text = <<"c", "f", ":", "2", ":", "1", ":", "A", "A">>
  /\ last.kind = "PrefixError"

\* C6: every string that starts with cf:1: and is not of the grammar is
\* refused with ParseError, before the registry is asked, the payload decoded
\* or parsePayload called.
GrammarRejection ==
  (last.op = "fromUri" /\ IsPrefixOf(Prefix, last.text) /\ ~MatchesGrammar(last.text)) =>
    /\ last.kind = "ParseError"
    /\ last.events = <<"split", "FULFILLMENT_REGEX">>

GrammarRejectionWitness ==
  /\ last.op = "fromUri"
  /\ last.text = <<"c", "f", ":", "1", ":", "0", ":", "A", "A">>
  /\ last.kind = "ParseError"

\* The type bit an entry point reads from its argument, when it gets that far.
TypeBitRead ==
  IF last.op = "fromBinary" /\ ReadVarUInt(last.bytes).ok THEN ReadVarUInt(last.bytes).value
  ELSE IF last.op = "fromUri" /\ last.text # NotAString /\ MatchesGrammar(last.text)
    THEN ParseIntRadix(Split(last.text)[3], 16)
  ELSE NaN

\* C7: a type bit without a registrant is refused with ParseError; no object
\* is constructed, parsePayload is not called, the registry stays as it was.
UnknownType ==
  (TypeBitRead # NaN /\ TypeBitRead \notin DOMAIN registry) =>
    /\ last.kind = "ParseError"
    /\ last.obj = NoFulfillment
    /\ "new" \notin Range(last.events)
    /\ "parsePayload" \notin Range(last.events)
    /\ registry \in Registries

UnknownTypeWitness ==
  /\ last.op = "fromUri"
  /\ last.arg = "input"
  /\ TypeBitRead = 78
  /\ last.kind = "ParseError"
  /\ 4 \in DOMAIN registry

\* An object of a registered class holding every field its payload announces:
\* the preimage as long as its length prefix says, the compound with as many
\* constituents as its count says, each an object of a registered class.
RECURSIVE OfRegisteredClasses(_)
OfRegisteredClasses(o) ==
  /\ o.type \in Variants
  /\ o.type \in {registry[b] : b \in DOMAIN registry}
  /\ \A i \in 1..Len(o.subs) : OfRegisteredClasses(o.subs[i])

Populated(o, payload) ==
  /\ OfRegisteredClasses(o)
  /\ o.type = "Preimage" => Len(o.preimage) = ReadVarUInt(payload).value
  /\ o.type = "And" => Len(o.subs) = ReadVarUInt(payload).value

\* C8: the binary form of a fulfillment cut short anywhere after its type
\* field is refused with ParseError; fromBinary returns an object only after
\* parsePayload has run to its end, the object then holding all of its fields,
\* and hands back nothing when it throws.
Underrun ==
  (last.op = "fromBinary") =>
    /\ last.arg = "truncated" => last.kind = "ParseError"
    /\ last.kind = "ok" =>
         /\ "parsePayload" \in Range(last.events)
         /\ Populated(last.obj, ReadVarUInt(last.bytes).rest)
    /\ last.kind # "ok" => last.obj = NoFulfillment

UnderrunWitness ==
  /\ last.op = "fromBinary"
  /\ last.arg = "truncated"
  /\ last.kind = "ParseError"
  /\ "parsePayload" \in Range(last.events)
  /\ held.type = "And"
  /\ Len(last.bytes) >= 4

\* C9: the binary form opens with the varuint of getTypeBit() and goes on with
\* exactly the payload; the URI's type segment is getTypeBit() in hex; both
\* for compounds too, whose conditions carry getBitmask() instead.
WireTypeField ==
  /\ last.op = "serializeBinary" =>
       LET t == ReadVarUInt(last.bytes)
       IN t.ok /\ t.value = TYPE_BIT(held.type) /\ t.rest = serializePayload(held)
  /\ last.op = "serializeUri" =>
       /\ ParseIntRadix(Piece(Split(last.text), 3), 16) = TYPE_BIT(held.type)
       /\ Piece(Split(last.text), 3) = ToHex(TYPE_BIT(held.type))
  /\ \A i \in 1..Len(conditions) : conditions[i].bitmask = getBitmask(held)

WireTypeFieldWitness ==
  /\ last.op = "serializeUri"
  /\ held.type = "And"
  /\ Len(conditions) >= 1
  /\ conditions[1].bitmask # TYPE_BIT(held.type)
  /\ conditions[1].bitmask = 257

\* C10: handed the same type bit and the same non-empty payload, fromUri and
\* fromBinary both fail with the same kind of error or both return equal
\* objects.
EntryPointsAgree ==
  (last.op = "fromBinary" /\ last.arg = "pair") =>
    /\ last.kind = last.peerKind
    /\ last.obj = last.peerObj

EntryPointsAgreeWitness ==
  /\ last.op = "fromBinary"
  /\ last.arg = "pair"
  /\ last.num = 256
  /\ last.kind = "ok"
  /\ last.peerKind = "ok"
  /\ last.obj.type = "Nil"

====
